---- MODULE Spec2Model ----
(***************************************************************************)
(* Model of scripts/download_chapter.py: download_chapter() and the        *)
(* __main__ block that turns its result into the exit status.              *)
(*                                                                         *)
(* Python strings are sequences of one-character strings, so that the      *)
(* substring tests, the slug filter and the page number formatting are     *)
(* computed as the code computes them.  A Python value that may be None    *)
(* is a record [none, str].                                                *)
(***************************************************************************)
EXTENDS Integers, Sequences, FiniteSets, TLC

\* ---------------------------------------------------------------- bounds
\* Longest page list a page-list document holds.
MaxPages == 2
\* Largest number of groups in a chapter's group mapping.
MaxGroups == 2

\* ------------------------------------------------------- Python values
None == [none |-> TRUE, str |-> <<>>]
Str(s) == [none |-> FALSE, str |-> s]
\* Python truthiness of None / a string: `if x:`, `if not x:`.
Truthy(v) == ~v.none /\ v.str # <<>>

\* `sub in s` on strings.
Contains(sub, s) ==
    \E i \in 1..(Len(s) - Len(sub) + 1) : SubSeq(s, i, i + Len(sub) - 1) = sub

\* str.isalnum() on the characters the model's slugs are made of.
IsAlnum(c) == c \in {"a", "b", "c", "0", "1", "2"}

\* "".join(c for c in series_slug if c.isalnum() or c in ('_', '-'))
RECURSIVE FilterSlug(_)
FilterSlug(s) ==
    IF s = <<>> THEN <<>>
    ELSE IF IsAlnum(Head(s)) \/ Head(s) \in {"_", "-"}
         THEN <<Head(s)>> \o FilterSlug(Tail(s))
         ELSE FilterSlug(Tail(s))

\* str.rstrip(): trailing whitespace removed.
RECURSIVE RStrip(_)
RStrip(s) ==
    IF s # <<>> /\ s[Len(s)] = " " THEN RStrip(SubSeq(s, 1, Len(s) - 1)) ELSE s

\* os.path.join(a, b) for a relative b.
PathJoin(a, b) == a \o <<"/">> \o b

\* One decimal digit as a character.
Digit(d) == <<"0", "1", "2", "3", "4", "5", "6", "7", "8", "9">>[d + 1]

\* str(n) for n >= 0.
RECURSIVE Decimal(_)
Decimal(n) == IF n < 10 THEN <<Digit(n)>> ELSE Decimal(n \div 10) \o <<Digit(n % 10)>>

\* f"{page:03d}": decimal, left-padded with zeros to width 3 (longer numbers
\* are not cut).
RECURSIVE ZeroPad(_, _)
ZeroPad(s, width) == IF Len(s) >= width THEN s ELSE ZeroPad(<<"0">> \o s, width)

\* Format03d without the padding: f"{page}".
Format03d_unpadded(n) == Decimal(n)

Format03d(n) == ZeroPad(Decimal(n), 3)

\* ------------------------------------------------------ function inputs
output_dir == <<".">>
chapter_number == <<"7">>

\* The series slug the runs are started with; it holds characters the
\* sanitizer keeps and characters it drops.
Slugs == { <<"a", "-", "/", "b", "_", "1", " ">> }

\* line 64
SafeSlug(slug) == RStrip(FilterSlug(slug))

\* line 65
ChapterDir(slug) ==
    PathJoin(output_dir, SafeSlug(slug) \o <<"_", "C", "h", "a", "p", "t", "e", "r", "_">> \o chapter_number)

\* f"page_{page:03d}.{extension}", the name inside the chapter directory (line 91)
PageFileName(page, extension) ==
    <<"p", "a", "g", "e", "_">> \o Format03d(page) \o <<".">> \o extension

\* ------------------------------------------------------------ exceptions
\* Subclasses of requests.RequestException that the steps raise.
RequestExceptions == {"Timeout", "ConnectionError", "HTTPError", "JSONDecodeError"}
\* Every class below derives from Exception.
ExceptionClasses == RequestExceptions \cup {"KeyError", "TypeError", "OSError"}

IsTimeout(e) == e = "Timeout"
IsRequestException(e) == e \in RequestExceptions
IsException(e) == e \in ExceptionClasses

\* InnerHandles with the clause of lines 99-100 left out.
InnerHandles_timeoutOnly(e) == IsTimeout(e)

\* The except clauses of the page loop (lines 97-100): TRUE when the
\* exception is handled there and the loop goes on.
InnerHandles(e) ==
    IF IsTimeout(e) THEN TRUE
    ELSE IF IsRequestException(e) THEN TRUE
    ELSE FALSE

\* OuterHandler with the catch-all clause of lines 122-124 left out.
OuterHandler_noCatchAll(e) ==
    IF IsRequestException(e) THEN 118
    ELSE IF e = "KeyError" THEN 121
    ELSE 0

\* The except clauses of the function (lines 116-124): the line of the
\* `return None` that handles e, or 0 when no clause matches and e leaves
\* the function.
OuterHandler(e) ==
    IF IsRequestException(e) THEN 118
    ELSE IF e = "KeyError" THEN 121
    ELSE IF IsException(e) THEN 124
    ELSE 0

\* -------------------------------------------------------- content types
jpg == <<"j", "p", "g">>
jpeg == <<"j", "p", "e", "g">>
png == <<"p", "n", "g">>
webp == <<"w", "e", "b", "p">>
gif == <<"g", "i", "f">>
image_ == <<"i", "m", "a", "g", "e", "/">>

\* The values of headers.get('content-type') the responses carry.
ContentTypes ==
    { None,
      Str(<<>>),
      Str(image_ \o jpeg),
      Str(image_ \o jpg),
      Str(image_ \o png),
      Str(image_ \o webp),
      Str(image_ \o gif),
      Str(<<"I", "M", "A", "G", "E", "/", "W", "E", "B", "P">>),
      Str(<<"t", "e", "x", "t", "/", "h", "t", "m", "l">>),
      Str(image_ \o gif \o <<";", "n", "=", "x", ".">> \o png) }

\* InferExtension with jpg as the default.
InferExtension_jpgDefault(content_type) ==
    IF Truthy(content_type)
    THEN IF Contains(jpeg, content_type.str) \/ Contains(jpg, content_type.str) THEN jpg
         ELSE IF Contains(png, content_type.str) THEN png
         ELSE IF Contains(webp, content_type.str) THEN webp
         ELSE IF Contains(gif, content_type.str) THEN gif
         ELSE jpg
    ELSE jpg

\* lines 79-89
InferExtension(content_type) ==
    IF Truthy(content_type)
    THEN IF Contains(jpeg, content_type.str) \/ Contains(jpg, content_type.str) THEN jpg
         ELSE IF Contains(png, content_type.str) THEN png
         ELSE IF Contains(webp, content_type.str) THEN webp
         ELSE IF Contains(gif, content_type.str) THEN gif
         ELSE png
    ELSE png

\* ------------------------------------------------------ remote documents
GroupKeys == {"1", "2", "3"}
\* The URL a group carries: a path, or the empty string.
GroupUrlOf(k) == Str(<<"/", "g", k>>)
GroupValues(k) == {GroupUrlOf(k), Str(<<>>)}

\* A group mapping is a dict: distinct keys, in insertion order.
GroupMappings ==
    UNION { { g \in [1..n -> [key : GroupKeys, url : {GroupUrlOf(k) : k \in GroupKeys} \cup {Str(<<>>)}]] :
                /\ \A i, j \in 1..n : i # j => g[i].key # g[j].key
                /\ \A i \in 1..n : g[i].url \in GroupValues(g[i].key) }
            : n \in 0..MaxGroups }

\* chapter_data: what series_data['chapters'].get(...) gives.
NoChapter == [none |-> TRUE, has_groups |-> FALSE, has_other |-> FALSE, groups |-> <<>>]
EmptyChapter == [none |-> FALSE, has_groups |-> FALSE, has_other |-> FALSE, groups |-> <<>>]
ChapterWithoutGroups == [none |-> FALSE, has_groups |-> FALSE, has_other |-> TRUE, groups |-> <<>>]
ChapterWith(g) == [none |-> FALSE, has_groups |-> TRUE, has_other |-> FALSE, groups |-> g]
ChapterValues ==
    {NoChapter, EmptyChapter, ChapterWithoutGroups} \cup {ChapterWith(g) : g \in GroupMappings}

\* `if not chapter_data` (line 22): None and the empty dict are falsy.
ChapterTruthy(c) == ~c.none /\ (c.has_groups \/ c.has_other)

NoSeries == [has_chapters |-> FALSE, chapter |-> NoChapter]
SeriesDocs == {NoSeries} \cup {[has_chapters |-> TRUE, chapter |-> c] : c \in ChapterValues}

\* dict.get(key) on a group mapping.
DictGet(groups, key) ==
    IF \E i \in 1..Len(groups) : groups[i].key = key
    THEN groups[CHOOSE i \in 1..Len(groups) : groups[i].key = key].url
    ELSE None

\* SelectGroupUrl without the fallback of lines 30-33.
SelectGroupUrl_noFallback(groups) ==
    LET first == DictGet(groups, "1") IN
    IF Truthy(first) THEN [found |-> TRUE, url |-> first]
    ELSE [found |-> FALSE, url |-> first]

\* lines 26-36: the page-list URL chosen from the group mapping.
SelectGroupUrl(groups) ==
    LET first == DictGet(groups, "1") IN
    IF Truthy(first) THEN [found |-> TRUE, url |-> first]
    ELSE IF groups # <<>> THEN [found |-> TRUE, url |-> groups[1].url]
    ELSE [found |-> FALSE, url |-> first]

\* line 39
ChapterDetailsUrl(url) == <<"https://cubari.moe">> \o url.str

\* The page URLs of the page-list document served at `url`: opaque, they
\* carry the document they come from and their position in it.
PageList(url, n) == [i \in 1..n |-> [doc |-> url, index |-> i]]

NoDetails == [type |-> "unset", has_pages |-> FALSE, pages_none |-> FALSE, pages |-> <<>>]
\* What response.json() of the page-list fetch gives: a list, a dict with a
\* 'pages' list, a dict without 'pages', a dict whose 'pages' is null, or any
\* other JSON value.
DetailsDocs(url) ==
    { [type |-> "list", has_pages |-> FALSE, pages_none |-> FALSE, pages |-> PageList(url, n)] : n \in 0..MaxPages }
    \cup { [type |-> "dict", has_pages |-> TRUE, pages_none |-> FALSE, pages |-> PageList(url, n)] : n \in 0..MaxPages }
    \cup { [type |-> "dict", has_pages |-> FALSE, pages_none |-> FALSE, pages |-> <<>>],
           [type |-> "dict", has_pages |-> TRUE, pages_none |-> TRUE, pages |-> <<>>],
           [type |-> "other", has_pages |-> FALSE, pages_none |-> FALSE, pages |-> <<>>] }

\* ------------------------------------------------------------ filesystem
\* The chapter directory before the run: absent, present and empty, or left
\* by an earlier run with a page file in it.
PreStates ==
    { [exists |-> FALSE, files |-> {}],
      [exists |-> TRUE, files |-> {}],
      [exists |-> TRUE, files |-> {PageFileName(1, jpg)}] }

\* ----------------------------------------------------------------- state
VARIABLES
    pc,                   \* the statement download_chapter / __main__ is at
    series_slug,          \* argument of the run
    pre,                  \* the chapter directory as the run found it
    dir_exists,           \* the chapter directory is on disk
    dir_files,            \* names of the files in the chapter directory
    dir_created,          \* the chapter directory was created by this run
    series_data,          \* line 17
    chapter_data,         \* line 21
    group_url,            \* lines 26-32
    details_requests,     \* URLs of the page-list fetches issued (line 41)
    chapter_details,      \* line 43
    image_urls,           \* lines 47-50
    chapter_specific_dir, \* line 65
    page,                 \* loop index of line 72
    image_response,       \* content-type header of the response of line 75 that
                          \* lines 78-95 are working on, None when there is none
    page_requests,        \* page URLs requested (line 75), in order
    request_failed,       \* for each of them, whether lines 75-76 raised
    attempts,             \* how each ended page attempt ended
    downloaded_files,     \* line 70 / 95
    rmdir,                \* how os.rmdir of line 110 ended, "" when not called
    exc,                  \* class of the exception raised, "" when none
    ret_line,             \* line of the return statement executed, 0 when none
    result_path,          \* what download_chapter returned (line 135)
    stdout_path,          \* DOWNLOAD_PATH lines printed (line 140)
    exit_code             \* sys.exit status, -1 while running

vars == <<pc, series_slug, pre, dir_exists, dir_files, dir_created, series_data,
          chapter_data, group_url, details_requests, chapter_details, image_urls,
          chapter_specific_dir, page, image_response, page_requests, request_failed,
          attempts, downloaded_files, rmdir, exc, ret_line, result_path, stdout_path, exit_code>>

fs == <<dir_exists, dir_files, dir_created, rmdir>>
locals == <<series_data, chapter_data, group_url, chapter_details, image_urls,
            chapter_specific_dir, page, image_response, downloaded_files>>
loopvars == <<page, image_response, page_requests, request_failed, attempts, downloaded_files>>
outcome == <<exc, ret_line, result_path>>
process == <<stdout_path, exit_code>>

\* State at the call of line 135.
Init ==
    /\ pc = "makedirs"
    /\ series_slug \in Slugs
    /\ pre \in PreStates
    /\ dir_exists = pre.exists
    /\ dir_files = pre.files
    /\ dir_created = FALSE
    /\ series_data = NoSeries
    /\ chapter_data = NoChapter
    /\ group_url = None
    /\ details_requests = <<>>
    /\ chapter_details = NoDetails
    /\ image_urls = <<>>
    /\ chapter_specific_dir = <<>>
    /\ page = 0
    /\ image_response = None
    /\ page_requests = <<>>
    /\ request_failed = <<>>
    /\ attempts = <<>>
    /\ downloaded_files = <<>>
    /\ rmdir = ""
    /\ exc = ""
    /\ ret_line = 0
    /\ result_path = None
    /\ stdout_path = <<>>
    /\ exit_code = -1

\* `return value` at `line`.
Return(value, line) ==
    /\ pc' = "returned"
    /\ result_path' = value
    /\ ret_line' = line
    /\ UNCHANGED exc

\* Exception e reaches the except clauses of lines 116-124.
RaiseOuter(e) ==
    /\ exc' = e
    /\ IF OuterHandler(e) # 0
       THEN /\ pc' = "returned"
            /\ result_path' = None
            /\ ret_line' = OuterHandler(e)
       ELSE /\ pc' = "raised"
            /\ UNCHANGED <<result_path, ret_line>>

\* line 10: os.makedirs(output_dir, exist_ok=True)
MakeOutputDir ==
    /\ pc = "makedirs"
    /\ \/ /\ pc' = "fetch_series"
          /\ UNCHANGED outcome
       \/ RaiseOuter("OSError")
    /\ UNCHANGED <<series_slug, pre, fs, locals, details_requests, page_requests, request_failed, attempts, process>>

\* lines 13-18: the series metadata fetch.
FetchSeries ==
    /\ pc = "fetch_series"
    /\ \/ \E e \in {"ConnectionError", "HTTPError", "JSONDecodeError"} :
            /\ RaiseOuter(e)
            /\ UNCHANGED series_data
       \/ \E d \in SeriesDocs :
            /\ series_data' = d
            /\ pc' = "find_chapter"
            /\ UNCHANGED outcome
    /\ UNCHANGED <<series_slug, pre, fs, chapter_data, group_url, chapter_details, image_urls,
                   chapter_specific_dir, loopvars, details_requests, process>>

\* lines 21-24
FindChapter ==
    /\ pc = "find_chapter"
    /\ IF ~series_data.has_chapters
       THEN /\ RaiseOuter("KeyError")
            /\ UNCHANGED chapter_data
       ELSE /\ chapter_data' = series_data.chapter
            /\ IF ~ChapterTruthy(series_data.chapter)
               THEN Return(None, 24)
               ELSE /\ pc' = "select_group"
                    /\ UNCHANGED outcome
    /\ UNCHANGED <<series_slug, pre, fs, series_data, group_url, chapter_details, image_urls,
                   chapter_specific_dir, loopvars, details_requests, process>>

\* lines 26-36
SelectGroup ==
    /\ pc = "select_group"
    /\ IF ~chapter_data.has_groups
       THEN /\ RaiseOuter("KeyError")
            /\ UNCHANGED group_url
       ELSE LET sel == SelectGroupUrl(chapter_data.groups) IN
            /\ group_url' = sel.url
            /\ IF sel.found
               THEN /\ pc' = "fetch_details"
                    /\ UNCHANGED outcome
               ELSE Return(None, 36)
    /\ UNCHANGED <<series_slug, pre, fs, series_data, chapter_data, chapter_details, image_urls,
                   chapter_specific_dir, loopvars, details_requests, process>>

\* lines 39-44: the page-list fetch.
FetchDetails ==
    /\ pc = "fetch_details"
    /\ details_requests' = Append(details_requests, ChapterDetailsUrl(group_url))
    /\ \/ \E e \in {"ConnectionError", "HTTPError", "JSONDecodeError"} :
            /\ RaiseOuter(e)
            /\ UNCHANGED chapter_details
       \/ \E d \in DetailsDocs(ChapterDetailsUrl(group_url)) :
            /\ chapter_details' = d
            /\ pc' = "get_image_urls"
            /\ UNCHANGED outcome
    /\ UNCHANGED <<series_slug, pre, fs, series_data, chapter_data, group_url, image_urls,
                   chapter_specific_dir, loopvars, process>>

\* NoPages testing for a negative length.
NoPages_negative(total_pages) == total_pages < 0

\* line 56: `if total_pages == 0`
NoPages(total_pages) == total_pages = 0

\* lines 47-61
GetImageUrls ==
    /\ pc = "get_image_urls"
    /\ IF chapter_details.type = "list"
       THEN /\ image_urls' = chapter_details.pages
            /\ IF NoPages(Len(chapter_details.pages))
               THEN Return(None, 59)
               ELSE /\ pc' = "make_chapter_dir"
                    /\ UNCHANGED outcome
       ELSE IF chapter_details.type = "dict"
       THEN IF chapter_details.has_pages /\ chapter_details.pages_none
            THEN \* len(None), line 55
                 /\ RaiseOuter("TypeError")
                 /\ UNCHANGED image_urls
            ELSE /\ image_urls' = chapter_details.pages
                 /\ IF NoPages(Len(chapter_details.pages))
                    THEN Return(None, 59)
                    ELSE /\ pc' = "make_chapter_dir"
                         /\ UNCHANGED outcome
       ELSE /\ Return(None, 53)
            /\ UNCHANGED image_urls
    /\ UNCHANGED <<series_slug, pre, fs, series_data, chapter_data, group_url, chapter_details,
                   chapter_specific_dir, loopvars, details_requests, process>>

\* lines 64-70: os.makedirs(chapter_specific_dir, exist_ok=True)
MakeChapterDir ==
    /\ pc = "make_chapter_dir"
    /\ chapter_specific_dir' = ChapterDir(series_slug)
    /\ \/ /\ dir_exists' = TRUE
          /\ dir_created' = ~dir_exists
          /\ IF Len(image_urls) > 0
             THEN /\ page' = 1
                  /\ pc' = "request_page"
             ELSE /\ pc' = "count"
                  /\ UNCHANGED page
          /\ UNCHANGED outcome
       \/ /\ ~dir_exists
          /\ RaiseOuter("OSError")
          /\ UNCHANGED <<dir_exists, dir_created, page>>
    /\ UNCHANGED <<series_slug, pre, dir_files, rmdir, series_data, chapter_data, group_url,
                   chapter_details, image_urls, image_response, page_requests, request_failed, attempts,
                   downloaded_files, details_requests, process>>

\* NextIteration that requests a page again when its attempt was skipped.
NextIteration_retry ==
    IF attempts'[Len(attempts')] = "skipped"
    THEN /\ pc' = "request_page"
         /\ UNCHANGED page
    ELSE IF page < Len(image_urls)
    THEN /\ page' = page + 1
         /\ pc' = "request_page"
    ELSE /\ pc' = "count"
         /\ UNCHANGED page

\* The for statement of line 72 takes the next page, or ends.
NextIteration ==
    IF page < Len(image_urls)
    THEN /\ page' = page + 1
         /\ pc' = "request_page"
    ELSE /\ pc' = "count"
         /\ UNCHANGED page

\* Exception e raised inside the try of lines 74-95.
RaiseInLoop(e) ==
    IF InnerHandles(e)
    THEN /\ attempts' = Append(attempts, "skipped")
         /\ NextIteration
         /\ UNCHANGED outcome
    ELSE /\ RaiseOuter(e)
         /\ UNCHANGED <<attempts, page>>

\* lines 72-76: the request for one page.
RequestPage ==
    /\ pc = "request_page"
    /\ page <= Len(image_urls)
    /\ page_requests' = Append(page_requests, image_urls[page])
    /\ \/ \E content_type \in ContentTypes :
            /\ request_failed' = Append(request_failed, FALSE)
            /\ image_response' = content_type
            /\ pc' = "save_page"
            /\ UNCHANGED <<attempts, page, outcome>>
       \/ \E e \in {"Timeout", "ConnectionError", "HTTPError"} :
            /\ request_failed' = Append(request_failed, TRUE)
            /\ RaiseInLoop(e)
            /\ UNCHANGED image_response
    /\ UNCHANGED <<series_slug, pre, fs, series_data, chapter_data, group_url, chapter_details,
                   image_urls, chapter_specific_dir, downloaded_files, details_requests, process>>

\* lines 78-95: the extension, the file name and the write of one page.
SavePage ==
    /\ pc = "save_page"
    /\ LET extension == InferExtension(image_response)
           file_name == PageFileName(page, extension)
           file_path == PathJoin(chapter_specific_dir, file_name)
       IN  \/ \* written and closed
              /\ dir_files' = dir_files \cup {file_name}
              /\ downloaded_files' = Append(downloaded_files, file_path)
              /\ attempts' = Append(attempts, "saved")
              /\ NextIteration
              /\ UNCHANGED outcome
           \/ \* open() fails (line 92): no file
              /\ RaiseInLoop("OSError")
              /\ UNCHANGED <<dir_files, downloaded_files>>
           \/ \* f.write() fails (line 93): the file is there, cut short
              /\ dir_files' = dir_files \cup {file_name}
              /\ RaiseInLoop("OSError")
              /\ UNCHANGED downloaded_files
    /\ image_response' = None
    /\ UNCHANGED <<series_slug, pre, dir_exists, dir_created, rmdir, series_data, chapter_data,
                   group_url, chapter_details, image_urls, chapter_specific_dir,
                   page_requests, request_failed, details_requests, process>>

\* DownloadSucceeded with >= for >.
DownloadSucceeded_orEqual(download_count) == download_count >= 0

\* line 103: `if download_count > 0`
DownloadSucceeded(download_count) == download_count > 0

\* lines 102-114
CountDownloads ==
    /\ pc = "count"
    /\ IF DownloadSucceeded(Len(downloaded_files))
       THEN /\ Return(Str(chapter_specific_dir), 105)
            /\ UNCHANGED fs
       ELSE /\ \/ \* os.rmdir removes the directory, which must be empty
                  /\ dir_files = {}
                  /\ dir_exists' = FALSE
                  /\ rmdir' = "removed"
                  /\ UNCHANGED <<dir_files, dir_created>>
               \/ \* os.rmdir raises OSError (lines 112-113)
                  /\ rmdir' = "OSError"
                  /\ UNCHANGED <<dir_exists, dir_files, dir_created>>
            /\ Return(None, 114)
    /\ UNCHANGED <<series_slug, pre, locals, details_requests, page_requests, request_failed, attempts, process>>

\* lines 135-144
Main ==
    /\ pc = "returned"
    /\ pc' = "exited"
    /\ IF Truthy(result_path)
       THEN /\ stdout_path' = Append(stdout_path, result_path.str)
            /\ exit_code' = 0
       ELSE /\ exit_code' = 1
            /\ UNCHANGED stdout_path
    /\ UNCHANGED <<series_slug, pre, fs, locals, details_requests, page_requests, request_failed, attempts, outcome>>

Next ==
    \/ MakeOutputDir
    \/ FetchSeries
    \/ FindChapter
    \/ SelectGroup
    \/ FetchDetails
    \/ GetImageUrls
    \/ MakeChapterDir
    \/ RequestPage
    \/ SavePage
    \/ CountDownloads
    \/ Main

Spec == Init /\ [][Next]_vars

\* ------------------------------------------------------ the properties
Extensions == {jpg, png, webp, gif}

\* download_chapter has returned.
Returned == pc \in {"returned", "exited"}
ReturnedPath == Returned /\ result_path = Str(ChapterDir(series_slug))
ReturnedNone == Returned /\ result_path = None

\* Positions of the page list whose attempt ended with a saved file / a skip.
SavedPositions == {i \in 1..Len(attempts) : attempts[i] = "saved"}
SkippedPositions == {i \in 1..Len(attempts) : attempts[i] = "skipped"}
\* Positions whose request failed (timeout, HTTP error status, other request
\* failure).
FailedPositions == {i \in 1..Len(request_failed) : request_failed[i]}

\* The file name at the end of a path below the chapter directory.
BaseName(path) == SubSeq(path, Len(chapter_specific_dir) + 2, Len(path))
\* Names of the files this run has saved, in the order of saving.
SavedNames == [k \in 1..Len(downloaded_files) |-> BaseName(downloaded_files[k])]
SavedNameSet == {SavedNames[k] : k \in 1..Len(downloaded_files)}

IsDigit(c) == c \in {"0", "1", "2", "3", "4", "5", "6", "7", "8", "9"}
DigitValue(c) ==
    CASE c = "0" -> 0 [] c = "1" -> 1 [] c = "2" -> 2 [] c = "3" -> 3 [] c = "4" -> 4
      [] c = "5" -> 5 [] c = "6" -> 6 [] c = "7" -> 7 [] c = "8" -> 8 [] c = "9" -> 9
RECURSIVE ParseNat(_)
ParseNat(s) == IF s = <<>> THEN 0 ELSE 10 * ParseNat(SubSeq(s, 1, Len(s) - 1)) + DigitValue(s[Len(s)])

\* The digits between "page_" and the "." of a file name.
RECURSIVE LeadingDigits(_)
LeadingDigits(s) ==
    IF s # <<>> /\ IsDigit(Head(s)) THEN <<Head(s)>> \o LeadingDigits(Tail(s)) ELSE <<>>
NameDigits(name) == LeadingDigits(SubSeq(name, 6, Len(name)))
\* The page index a file name carries.
PageIndexOf(name) == ParseNat(NameDigits(name))

\* name is "page_", then i in decimal padded with zeros to 3 digits, then
\* ".", then one of the four extensions.
NamedByPosition(name, i) ==
    LET digits == NameDigits(name) IN
    /\ Len(name) > 5
    /\ SubSeq(name, 1, 5) = <<"p", "a", "g", "e", "_">>
    /\ Len(digits) >= 3
    /\ Len(digits) > 3 => digits[1] # "0"
    /\ ParseNat(digits) = i
    /\ \E e \in Extensions : SubSeq(name, 6 + Len(digits), Len(name)) = <<".">> \o e

\* C1 (as claimed): at return either the chapter directory path is returned
\* and the directory holds one file for each page saved, or None is returned
\* and no chapter directory created by the run is on disk; a directory created
\* by the run is there only if at least one page was saved.
C1_DirectoryOrNothing ==
    Returned =>
        /\ \/ /\ ReturnedPath
              /\ dir_exists
              /\ SavedNameSet \subseteq dir_files
              /\ Cardinality(SavedNameSet) = Cardinality(SavedPositions)
           \/ /\ ReturnedNone
              /\ ~(dir_exists /\ dir_created)
        /\ (dir_exists /\ dir_created) => Cardinality(SavedPositions) >= 1

\* C2 (as claimed): the process signals success (path returned, DOWNLOAD_PATH
\* printed, exit code 0) exactly when at least one page was saved during the
\* run; otherwise None is returned and the exit code is 1.
C2_SuccessIffAnyPageSaved ==
    pc = "exited" =>
        IF Cardinality(SavedPositions) >= 1
        THEN ReturnedPath /\ stdout_path = <<ChapterDir(series_slug)>> /\ exit_code = 0
        ELSE ReturnedNone /\ stdout_path = <<>> /\ exit_code = 1

\* Every page of a non-empty page list was requested and saved.
AllPagesSaved ==
    /\ Returned
    /\ Len(image_urls) >= 1
    /\ SavedPositions = 1..Len(image_urls)

\* C3 (as claimed): with N >= 1 pages all saved, the chapter directory holds
\* exactly N files, the file of position i is named page_<i, 3 digits>.<ext>,
\* and the directory path is returned.
C3_ExactlyNFiles ==
    AllPagesSaved =>
        /\ ReturnedPath
        /\ Cardinality(dir_files) = Len(image_urls)
        /\ \A i \in 1..Len(image_urls) :
              SavedNames[i] \in dir_files /\ NamedByPosition(SavedNames[i], i)

\* C3 (amended): with N >= 1 pages all saved, the directory path is returned
\* and the directory holds the N page files, the file of position i named
\* page_<i, 3 digits>.<ext>, beside the files it held before the run under
\* other names; it holds exactly N files when it held none before the run.
C3_NFilesBesidePreExisting ==
    AllPagesSaved =>
        /\ ReturnedPath
        /\ dir_exists
        /\ Len(downloaded_files) = Len(image_urls)
        /\ \A i \in 1..Len(image_urls) :
              SavedNames[i] \in dir_files /\ NamedByPosition(SavedNames[i], i)
        /\ Cardinality(SavedNameSet) = Len(image_urls)
        /\ dir_files = pre.files \cup SavedNameSet
        /\ pre.files = {} => Cardinality(dir_files) = Len(image_urls)

\* C3 witness: two pages, both saved, into a directory the run created.
C3_Witness ==
    /\ AllPagesSaved
    /\ Len(image_urls) >= 2
    /\ dir_created

\* The files of position i that the run itself has put in the directory.
WrittenFor(i) == {n \in dir_files \ pre.files : PageIndexOf(n) = i}

\* Of N >= 2 pages the request of exactly one failed, and the others were
\* saved.
OnePageFailed ==
    /\ Returned
    /\ Len(image_urls) >= 2
    /\ Cardinality(FailedPositions) = 1
    /\ SavedPositions = (1..Len(image_urls)) \ FailedPositions

\* A request failure of page i does not end the run: no file is written for
\* position i, and the run goes on to request page i + 1, or to the count of
\* line 102 when i is the last page.
SkipGoesOn(i) ==
    /\ WrittenFor(i) = {}
    /\ i \in SkippedPositions
    /\ exc = "" \/ Len(page_requests) > i
    /\ IF i < Len(image_urls)
       THEN \/ pc = "request_page" /\ page = i + 1
            \/ Len(page_requests) > i
       ELSE pc \in {"count", "returned", "exited"}

\* The k-th saved file carries the position of the k-th saved page.
SavedNamedByOwnPosition ==
    \A k \in 1..Len(downloaded_files) :
        \E i \in SavedPositions :
            /\ Cardinality({j \in SavedPositions : j < i}) = k - 1
            /\ NamedByPosition(SavedNames[k], i)

AllPagesFailed ==
    /\ Returned
    /\ Len(image_urls) >= 1
    /\ FailedPositions = 1..Len(image_urls)

Rank(p) ==
    CASE p = "makedirs" -> 1
      [] p = "fetch_series" -> 2
      [] p = "find_chapter" -> 3
      [] p = "select_group" -> 4
      [] p = "fetch_details" -> 5
      [] p = "get_image_urls" -> 6
      [] p = "make_chapter_dir" -> 7
      [] p = "request_page" -> 8
      [] p = "save_page" -> 8
      [] p = "count" -> 9
      [] OTHER -> 10

\* The run has met one of the failures that come before the download loop.
FailedBeforeLoop ==
    \/ exc \in RequestExceptions
    \/ Rank(pc) > 3 /\ ~ChapterTruthy(chapter_data)
    \/ Rank(pc) > 4 /\ chapter_data.has_groups /\ chapter_data.groups = <<>>
    \/ Rank(pc) > 6 /\ chapter_details.type = "other"
    \/ Rank(pc) > 6 /\ chapter_details.type \in {"list", "dict"} /\ ~chapter_details.pages_none
                    /\ Len(chapter_details.pages) = 0

\* C6: a failure before the download loop (a metadata fetch that fails, a
\* chapter that is absent, a chapter without groups, a page-list document of
\* another shape, an empty page list) makes download_chapter return None with
\* nothing created: no chapter directory, no page file, no page request.
C6_NoPartialState ==
    FailedBeforeLoop =>
        /\ ReturnedNone
        /\ dir_exists = pre.exists
        /\ ~dir_created
        /\ dir_files = pre.files
        /\ page_requests = <<>>
        /\ downloaded_files = <<>>

\* C6 witness: the page-list document holds no page, and the run has ended.
C6_Witness ==
    /\ pc = "exited"
    /\ ret_line = 59
    /\ chapter_details.type = "dict"
    /\ chapter_details.has_pages
    /\ ~pre.exists

\* The group mapping has the key '1'.
HasPrimaryKey(groups) == \E i \in 1..Len(groups) : groups[i].key = "1"

\* The page-list fetch went to `url`, once, and the pages requested are
\* those of the document fetched there.
FetchedFrom(url) ==
    /\ group_url = url
    /\ Rank(pc) > 5 =>
          /\ details_requests = <<ChapterDetailsUrl(url)>>
          /\ \A i \in 1..Len(page_requests) : page_requests[i].doc = ChapterDetailsUrl(url)

\* The group selection of lines 26-36 has been made.
GroupSelected == Rank(pc) > 4 /\ chapter_data.has_groups

\* C7 (as claimed): with the key '1' in the group mapping the URL stored
\* under '1' is fetched; without it, and with a group, the URL of one of the
\* groups is fetched and its page list downloaded; with no group None is
\* returned and no page-list fetch is made.
C7_PrimaryKeyPreferred ==
    GroupSelected =>
        LET groups == chapter_data.groups IN
        /\ HasPrimaryKey(groups) => FetchedFrom(DictGet(groups, "1"))
        /\ (~HasPrimaryKey(groups) /\ groups # <<>>) =>
              \E i \in 1..Len(groups) : FetchedFrom(groups[i].url)
        /\ groups = <<>> => ReturnedNone /\ ret_line = 36 /\ details_requests = <<>>

\* C7 (amended): with a non-empty URL under the key '1' that URL is fetched;
\* with the key '1' absent or its URL empty, and with a group, the URL of one
\* of the groups, the first in the mapping's order, is fetched and its page
\* list downloaded; with no group None is returned and no page-list fetch is
\* made.
C7_PrimaryUrlPreferred ==
    GroupSelected =>
        LET groups == chapter_data.groups IN
        /\ (HasPrimaryKey(groups) /\ DictGet(groups, "1").str # <<>>) =>
              FetchedFrom(DictGet(groups, "1"))
        /\ ((~HasPrimaryKey(groups) \/ DictGet(groups, "1").str = <<>>) /\ groups # <<>>) =>
              FetchedFrom(groups[1].url)
        /\ groups = <<>> => ReturnedNone /\ ret_line = 36 /\ details_requests = <<>>

\* C7 witness: no key '1', two other groups, and a page of the first one's
\* page list has been requested.
C7_Witness ==
    /\ GroupSelected
    /\ ~HasPrimaryKey(chapter_data.groups)
    /\ Len(chapter_data.groups) = 2
    /\ Len(page_requests) >= 1
    /\ page_requests[1].doc = ChapterDetailsUrl(chapter_data.groups[1].url)

\* The content type names the word w.
Names(content_type, w) == ~content_type.none /\ Contains(w, content_type.str)

\* The extension the content type stands for: the first of jpeg/jpg, png,
\* webp, gif that it names, and png when it names none or is missing.
ExtensionFor(content_type) ==
    CASE Names(content_type, jpeg) \/ Names(content_type, jpg) -> jpg
      [] ~(Names(content_type, jpeg) \/ Names(content_type, jpg)) /\ Names(content_type, png) -> png
      [] \A w \in {jpeg, jpg, png} : ~Names(content_type, w) /\ Names(content_type, webp) -> webp
      [] \A w \in {jpeg, jpg, png, webp} : ~Names(content_type, w) /\ Names(content_type, gif) -> gif
      [] OTHER -> png

\* The extension of a file name.
ExtensionOf(name) == SubSeq(name, 7 + Len(NameDigits(name)), Len(name))

\* C8: the extension of every file saved is the one its response's
\* content type stands for (jpeg or jpg: jpg, png: png, webp: webp, gif: gif,
\* anything else or no header: png), whatever the page; image/webp gives webp
\* and a missing header gives png.
C8_ExtensionFromContentType ==
    [][ Len(downloaded_files') = Len(downloaded_files) + 1 =>
          LET saved == BaseName(downloaded_files'[Len(downloaded_files')]) IN
          /\ saved \in dir_files'
          /\ ExtensionOf(saved) = ExtensionFor(image_response)
          /\ image_response = Str(image_ \o webp) => ExtensionOf(saved) = webp
          /\ image_response = None => ExtensionOf(saved) = png
      ]_vars

\* C8 witness: a webp file and a gif file have been saved.
C8_Witness ==
    /\ Len(downloaded_files) = 2
    /\ ExtensionOf(SavedNames[1]) = webp
    /\ ExtensionOf(SavedNames[2]) = gif

\* C9: no exception leaves download_chapter: whatever is raised at any step
\* ends in one of the `return None` of lines 118, 121, 124, and the process
\* then exits with status 1 without printing DOWNLOAD_PATH.
C9_NoExceptionEscapes ==
    /\ pc # "raised"
    /\ exc # "" => ReturnedNone /\ ret_line \in {118, 121, 124}
    /\ (Rank(pc) > 6 /\ chapter_details.type = "other") => ReturnedNone
    /\ (pc = "exited" /\ ReturnedNone) => exit_code = 1 /\ stdout_path = <<>>

\* C9 witness: a file write failed on the second page and the process has
\* exited with status 1.
C9_Witness ==
    /\ pc = "exited"
    /\ exc = "OSError"
    /\ Len(page_requests) = 2
    /\ exit_code = 1

\* C10: pages are requested in page-list order, each position once; a page
\* is requested only when every earlier attempt has ended; the files saved
\* are saved in increasing order of their page index.
C10_PagesInOrder ==
    /\ Len(page_requests) <= Len(image_urls)
    /\ \A i \in 1..Len(page_requests) : page_requests[i] = image_urls[i]
    /\ \A i, j \in 1..Len(page_requests) : i # j => page_requests[i] # page_requests[j]
    /\ Len(attempts) <= Len(page_requests)
    /\ Len(page_requests) <= Len(attempts) + 1
    /\ Len(page_requests) = Len(attempts) + 1 => pc = "save_page" \/ exc # ""
    /\ pc = "request_page" => page = Len(page_requests) + 1
    /\ pc = "save_page" => page = Len(page_requests)
    /\ LET index == [k \in 1..Len(downloaded_files) |-> PageIndexOf(SavedNames[k])] IN
       \A j, k \in 1..Len(downloaded_files) : j < k => index[j] < index[k]

\* C10 witness: two pages were requested and saved, one after the other.
C10_Witness ==
    /\ pc = "count"
    /\ Len(page_requests) = 2
    /\ Len(downloaded_files) = 2

====
